---------------------------- MODULE Spec2Model ----------------------------
(***************************************************************************)
(* Sync-Validate-Retry pipeline of the genaiglobal.org mirror.             *)
(*                                                                         *)
(*   prog = "sync" : src/unnamed/part_001, the sync-validate script with   *)
(*                   the unbounded retry loop (while (!validated)).        *)
(*   prog = "fix"  : src/unnamed/part_002, the fix-validate script with    *)
(*                   the bounded retry loop (MAX_ATTEMPTS).                *)
(*                                                                         *)
(* A third specification, SpecDiff, studies the visual diff of the two     *)
(* scripts and of src/test/visual-regression.test.js as a pure function    *)
(* of the two screenshots.                                                 *)
(*                                                                         *)
(* Both scripts are single-threaded async code: every await is a point     *)
(* where the environment (live site, external tool, browser) answers, so   *)
(* each awaited step is one action and its answer is drawn with \E.        *)
(***************************************************************************)
EXTENDS Integers, Sequences, FiniteSets, TLC

\* ------------------------------------------------------------------ bounds
\* Largest number of Routes route discovery returns.
NumRoutes == 2
\* Validation rounds the unbounded loop of part_001 is followed for.
MaxRounds == 3
\* Largest length of the extracted primary content.
MaxContentLen == 1
\* Largest number of html files discoverFiles finds (part_002).
NumFiles == 2

\* --------------------------------------------------------------- constants
\* part_001: const DOM_THRESHOLD = 0.99, kept as a percentage.
DOM_THRESHOLD_PCT == 99
\* const VISUAL_THRESHOLD = 0.1 (part_001), const threshold = 0.1 (part_002 line 13,
\* visual-regression.test.js line 19), in percent, as the fraction NUM / DEN.
VISUAL_THRESHOLD_NUM == 1
VISUAL_THRESHOLD_DEN == 10
\* part_002: const MAX_ATTEMPTS = 3.
MAX_ATTEMPTS == 3
\* Exit code of a Node 18 process that ends by an unhandled rejection.
UnhandledRejectionExit == 1

VARIABLES
    prog,        \* which script runs: "sync" | "fix"
    pc,          \* position in the script
    n,           \* number of discovered Routes (Routes are 1..n) / html files
    i,           \* index of the for-loop in progress
    round,       \* validation rounds started so far
    syncPass,    \* synchronization passes started so far
    snap,        \* snap[r]: the sync pass that last wrote r's Snapshot, 0 = no file
    fetched,     \* length of the content fetched for Route i, -1 = nothing fetched
    servers,     \* rounds whose http-server child is still running
    browsers,    \* rounds whose puppeteer browser is still running
    executed,    \* <<stage, route>> checks run in the current round (route 0: round-level)
    diffImages,  \* Routes whose diff image was written in the current round
    results,     \* outcome of every finished round, in order: "pass" | "fail" | "threw"
    reportRound, \* the round whose Report is in validation-report.json, 0 = no file
    attempt,     \* part_002: the for-loop's attempt counter
    outcome,     \* "running" | "Passed" | "AttemptsExhausted" | "Fatal" | "Crashed"
    exitCode,    \* process exit code, -1 while running
    impl,        \* visual diff under study: "sync" | "fix" | "test", "none" in a script run
    imgLocal,    \* the local screenshot handed to the visual diff
    imgLive,     \* the live screenshot handed to the visual diff
    cmp,         \* what the visual diff computed, NoCmp before it ran
    fnArg,       \* the input of the function under study, NoArg in a script run
    fnRes,       \* what the function under study returned, NoRes before it ran
    exitProp,    \* process.exitCode: Undefined until a script assigns it, then <<code>>
    openPages    \* browser pages opened and not closed

vars == <<prog, pc, n, i, round, syncPass, snap, fetched, servers, browsers,
          executed, diffImages, results, reportRound, attempt, outcome, exitCode,
          impl, imgLocal, imgLive, cmp, fnArg, fnRes, exitProp, openPages>>

\* The variables of the visual diff study; the script runs leave them alone.
diffVars == <<impl, imgLocal, imgLive, cmp, fnArg, fnRes>>
progVars == <<prog, diffVars, exitProp>>

NoImage == [w |-> 0, h |-> 0, data |-> <<>>]
NoCmp == [threw |-> FALSE, canvas |-> <<0, 0>>, diffPixels |-> 0, total |-> 0]
NoArg == <<>>
NoRes == <<>>

AllRoutes == 1..NumRoutes

\* A script is about to run; p is the script, at0 its first position.
\* The value of a property nothing has assigned.
Undefined == <<>>

RunInit(p, at0) ==
    /\ prog = p
    /\ pc = at0
    /\ n = 0
    /\ i = 1
    /\ round = 0
    /\ syncPass = 0
    /\ snap = [r \in AllRoutes |-> 0]
    /\ fetched = -1
    /\ servers = {}
    /\ browsers = {}
    /\ executed = {}
    /\ diffImages = {}
    /\ results = <<>>
    /\ reportRound = 0
    /\ attempt = 0
    /\ outcome = "running"
    /\ exitCode = -1
    /\ exitProp = Undefined
    /\ openPages = 0

Init ==
    /\ \/ RunInit("sync", "discover")
       \/ RunInit("fix", "fv_discover")
       \/ RunInit("test", "vr_listen")
    /\ impl = "none"
    /\ imgLocal = NoImage
    /\ imgLive = NoImage
    /\ cmp = NoCmp
    /\ fnArg = NoArg
    /\ fnRes = NoRes

\* process.exit(code): the script stops where it is; children are not reaped.
Exit(code, how) ==
    /\ pc' = "exited"
    /\ exitCode' = code
    /\ outcome' = how


\* ------------------------------------------------- part_001: sync-validate
\* Variables an action of the validation round never touches.
syncVars == <<snap, fetched>>
idVars == <<progVars, n>>
fvVars == <<reportRound, attempt>>
endVars == <<outcome, exitCode>>

\* Mutant of SyncDone: the pass stops one Route early.
SyncDone_OffByOne(k, m) == k >= m
\* `for (const r of routes) await syncRoute(r)`: the pass is over after the last Route.
SyncDone(k, m) == k > m

\* syncRoute's completeness ratio, as the pair <<numerator, denominator>>:
\* (main.html() || '').length ? len / len : 1.
Ratio(len) == IF len # 0 THEN <<len, len>> ELSE <<1, 1>>
\* ratio < DOM_THRESHOLD
BelowThreshold(q) == q[1] * 100 < DOM_THRESHOLD_PCT * q[2]

\* Mutant of SV_OuterCatch: the fatal path reports success.
SV_OuterCatch_ExitZero == Exit(0, "Fatal")
\* } catch (err) { console.error(err); process.exit(1); }
SV_OuterCatch == Exit(1, "Fatal")

\* discoverRoutes() either returns the Routes or, when the root page fetch of the
\* fallback fails as well, throws into the outer catch; then fsp.rm(DIST_DIR).
SV_Discover ==
    /\ prog = "sync" /\ pc = "discover"
    /\ \/ /\ \E m \in 0..NumRoutes : n' = m
          /\ snap' = [r \in AllRoutes |-> 0]
          /\ pc' = "sync" /\ i' = 1 /\ syncPass' = 1
          /\ UNCHANGED endVars
       \/ /\ SV_OuterCatch
          /\ UNCHANGED <<n, snap, i, syncPass>>
    /\ UNCHANGED <<openPages, progVars, round, fetched, servers, browsers, executed, diffImages,
                   results, reportRound, attempt>>

\* syncRoute, lines 54-58: fetch the live page and find the content region.  A failed
\* fetch and a missing region throw; the throw reaches the outer catch, from the first
\* pass and from the pass inside the retry loop's catch alike.
SV_SyncFetch ==
    /\ prog = "sync" /\ pc = "sync" /\ ~SyncDone(i, n) /\ fetched = -1
    /\ \/ /\ \E len \in 0..MaxContentLen : fetched' = len
          /\ UNCHANGED <<pc, endVars>>
       \/ /\ \E err \in {"RetrievalError", "MissingContentRegion"} : SV_OuterCatch
          /\ UNCHANGED fetched
    /\ UNCHANGED <<openPages, idVars, i, round, syncPass, snap, servers, browsers, executed,
                   diffImages, results, fvVars>>

\* syncRoute, lines 59-68: write the Snapshot, then the ratio check.
SV_SyncWrite ==
    /\ prog = "sync" /\ pc = "sync" /\ fetched >= 0
    /\ snap' = [snap EXCEPT ![i] = syncPass]
    /\ IF BelowThreshold(Ratio(fetched))
         THEN SV_OuterCatch /\ UNCHANGED <<i, fetched>>
         ELSE i' = i + 1 /\ fetched' = -1 /\ UNCHANGED <<pc, endVars>>
    /\ UNCHANGED <<openPages, idVars, round, syncPass, servers, browsers, executed, diffImages,
                   results, fvVars>>

\* The pass is over: fall into (or back into) `while (!validated)`.
SV_SyncEnd ==
    /\ prog = "sync" /\ pc = "sync" /\ SyncDone(i, n) /\ fetched = -1
    /\ pc' = "loop"
    /\ UNCHANGED <<openPages, idVars, i, round, syncPass, syncVars, servers, browsers, executed,
                   diffImages, results, fvVars, endVars>>

\* while (!validated) { try { await validate(routes) ...: a round starts.
SV_LoopHead ==
    /\ prog = "sync" /\ pc = "loop" /\ round < MaxRounds
    /\ round' = round + 1
    /\ executed' = {} /\ diffImages' = {}
    /\ pc' = "html" /\ i' = 1
    /\ UNCHANGED <<openPages, idVars, syncPass, syncVars, servers, browsers, results, fvVars, endVars>>

\* Mutant of SV_InnerCatch: the catch logs and loops without re-synchronizing.
SV_InnerCatch_NoResync ==
    /\ results' = Append(results, "fail")
    /\ pc' = "loop" /\ i' = 1
    /\ UNCHANGED syncPass
\* catch (err) { console.error(err.message); for (const r of routes) await syncRoute(r); }
\* Whatever validate() threw, the round is over and a synchronization pass starts.
SV_InnerCatch ==
    /\ results' = Append(results, "fail")
    /\ pc' = "sync" /\ i' = 1
    /\ syncPass' = syncPass + 1

\* One awaited step of validate(): it is recorded as run, and it either goes on or throws.
Step(stage, r, ok, next, nexti) ==
    /\ executed' = executed \cup {<<stage, r>>}
    /\ IF ok THEN pc' = next /\ i' = nexti /\ UNCHANGED <<results, syncPass>>
             ELSE SV_InnerCatch

roundFrame == <<idVars, round, syncVars, fvVars, endVars>>

\* for (const f of htmlFiles) run(`npx html-validator ...`): execSync throws on failure.
SV_HtmlValidator ==
    /\ prog = "sync" /\ pc = "html"
    /\ \E ok \in BOOLEAN : Step("html", 0, ok, "css", 1)
    /\ UNCHANGED <<openPages, roundFrame, servers, browsers, diffImages>>

SV_Stylelint ==
    /\ prog = "sync" /\ pc = "css"
    /\ \E ok \in BOOLEAN : Step("css", 0, ok, "js", 1)
    /\ UNCHANGED <<openPages, roundFrame, servers, browsers, diffImages>>

SV_Eslint ==
    /\ prog = "sync" /\ pc = "js"
    /\ \E ok \in BOOLEAN : Step("js", 0, ok, "spell", 1)
    /\ UNCHANGED <<openPages, roundFrame, servers, browsers, diffImages>>

SV_Cspell ==
    /\ prog = "sync" /\ pc = "spell"
    /\ \E ok \in BOOLEAN : Step("spell", 0, ok, "spawn", 1)
    /\ UNCHANGED <<openPages, roundFrame, servers, browsers, diffImages>>

\* spawn('npx', ['http-server', 'dist', '-p', PORT]) and the 2 s settle delay.  The
\* port is fixed: a child spawned while an earlier child still holds the port cannot
\* bind it and ends; the earlier child goes on serving.
SV_SpawnServer ==
    /\ prog = "sync" /\ pc = "spawn"
    /\ servers' = IF servers = {} THEN {round} ELSE servers
    /\ Step("spawn", 0, TRUE, "pa11y", 1)
    /\ UNCHANGED <<openPages, roundFrame, browsers, diffImages>>

\* for (const r of routes) run(`npx pa11y ...`)
SV_Pa11y ==
    /\ prog = "sync" /\ pc = "pa11y"
    /\ IF i > n
         THEN pc' = "launch" /\ i' = 1 /\ UNCHANGED <<executed, results, syncPass>>
         ELSE \E ok \in BOOLEAN : Step("pa11y", i, ok, "pa11y", i + 1)
    /\ UNCHANGED <<openPages, roundFrame, servers, browsers, diffImages>>

\* const browser = await puppeteer.launch(LAUNCH_OPTS)
SV_Launch ==
    /\ prog = "sync" /\ pc = "launch"
    /\ \E ok \in BOOLEAN :
         /\ Step("launch", 0, ok, "axe", 1)
         /\ browsers' = IF ok THEN browsers \cup {round} ELSE browsers
    /\ UNCHANGED <<openPages, roundFrame, servers, diffImages>>

\* Pages the aXe loop leaves open for one Route: page.close() (line 104) is behind
\* the goto (line 100) and the throw (line 103).
SV_AxePagesLeft(ok) == IF ok THEN 0 ELSE 1

\* aXe loop, lines 97-105: a failed navigation or any violation throws.
SV_Axe ==
    /\ prog = "sync" /\ pc = "axe"
    /\ IF i > n
         THEN pc' = "blc" /\ i' = 1 /\ UNCHANGED <<executed, results, syncPass, openPages>>
         ELSE \E ok \in BOOLEAN :
                /\ Step("axe", i, ok, "axe", i + 1)
                /\ openPages' = openPages + SV_AxePagesLeft(ok)
    /\ UNCHANGED <<roundFrame, servers, browsers, diffImages>>

\* run(`npx blc ...`), then mkdir REPORT_DIR
SV_Blc ==
    /\ prog = "sync" /\ pc = "blc"
    /\ \E ok \in BOOLEAN : Step("blc", 0, ok, "diff", 1)
    /\ UNCHANGED <<openPages, roundFrame, servers, browsers, diffImages>>

\* What one Route's pass through the DOM & visual diff loop (lines 109-132) meets:
\*   navError     a page.goto rejects (line 112 or 117)
\*   liveMissing  liveHtml is '' (selector not found on the live page)
\*   domShort     localHtml.length / liveHtml.length < DOM_THRESHOLD
\*   sizeMismatch pixelmatch rejects buffers of different length
\*   visualOver   pct > VISUAL_THRESHOLD
\*   same         nothing of the above
DiffConds == {"navError", "liveMissing", "domShort", "sizeMismatch", "visualOver", "same"}
\* Line 128 (writeFileSync(diffPath, ...)) is reached only past lines 112-125.
SV_DiffWritesImage(cond) == cond \in {"visualOver", "same"}
\* Lines 112, 117, 119, 125, 129 throw.
SV_DiffThrows(cond) == cond # "same"

\* Pages the diff loop may leave open for one Route: pageLocal.close() and
\* pageLive.close() (lines 130-131) are behind every throw.  A goto that rejects at
\* line 112 leaves pageLocal, one at line 117 and every later throw leave both.
SV_DiffPagesLeft(cond) ==
    IF cond = "same" THEN {0} ELSE IF cond = "navError" THEN {1, 2} ELSE {2}

SV_Diff ==
    /\ prog = "sync" /\ pc = "diff"
    /\ IF i > n
         THEN pc' = "lh" /\ i' = 1
              /\ UNCHANGED <<executed, results, syncPass, diffImages, openPages>>
         ELSE \E cond \in DiffConds :
                /\ Step("diff", i, ~SV_DiffThrows(cond), "diff", i + 1)
                /\ \E k \in SV_DiffPagesLeft(cond) : openPages' = openPages + k
                /\ diffImages' = IF SV_DiffWritesImage(cond)
                                   THEN diffImages \cup {i} ELSE diffImages
    /\ UNCHANGED <<roundFrame, servers, browsers>>

\* Lighthouse loop, lines 136-141.
SV_Lighthouse ==
    /\ prog = "sync" /\ pc = "lh"
    /\ IF i > n
         THEN pc' = "close" /\ i' = 1 /\ UNCHANGED <<executed, results, syncPass>>
         ELSE \E ok \in BOOLEAN : Step("lh", i, ok, "lh", i + 1)
    /\ UNCHANGED <<openPages, roundFrame, servers, browsers, diffImages>>

\* await browser.close()
SV_Close ==
    /\ prog = "sync" /\ pc = "close"
    /\ browsers' = browsers \ {round}
    /\ Step("close", 0, TRUE, "kill", 1)
    /\ UNCHANGED <<openPages, roundFrame, servers, diffImages>>

\* server.kill('SIGTERM') ends this round's child; validate() returns, validated =
\* true ends the while loop, and process.exit(0) follows with no await in between.
SV_KillAndExit ==
    /\ prog = "sync" /\ pc = "kill"
    /\ servers' = servers \ {round}
    /\ executed' = executed \cup {<<"kill", 0>>}
    /\ results' = Append(results, "pass")
    /\ Exit(0, "Passed")
    /\ UNCHANGED <<openPages, idVars, i, round, syncPass, syncVars, browsers, diffImages, fvVars>>

SV_Next ==
    \/ SV_Discover \/ SV_SyncFetch \/ SV_SyncWrite \/ SV_SyncEnd \/ SV_LoopHead
    \/ SV_HtmlValidator \/ SV_Stylelint \/ SV_Eslint \/ SV_Cspell \/ SV_SpawnServer
    \/ SV_Pa11y \/ SV_Launch \/ SV_Axe \/ SV_Blc \/ SV_Diff \/ SV_Lighthouse
    \/ SV_Close \/ SV_KillAndExit

\* -------------------------------------------------- part_002: fix-validate
\* validationPhase's stages in the order of lines 189-200.
FV_Stages == <<"html", "css", "js", "startServer", "pa11y", "axe", "blc", "spell",
               "domDiff", "visualDiff", "lighthouse", "kill">>

\* Whether the stage, as written, rejects whatever the tools answer:
\*   css        runStylelint reads `stderr`, which no scope declares (line 97)
\*   js         runEslint is called (line 191) and defined nowhere
\*   axe        `browser` is declared nowhere; the loop's catch absorbs line 117,
\*              `await browser.close()` (line 126) is outside it
\*   spell      runCspell reads `stderr` (line 136)
\*   domDiff    `await browser.close()` (line 155)
\*   visualDiff `browser.newPage()` (line 161) or `browser.close()` (line 177)
\* execPromise always resolves, so the other stages never reject.
FV_StageThrows(stage) == stage \in {"css", "js", "axe", "spell", "domDiff", "visualDiff"}

\* Index of the first rejecting stage, 0 when none rejects.
FV_FirstThrow ==
    LET bad == {k \in 1..Len(FV_Stages) : FV_StageThrows(FV_Stages[k])}
    IN  IF bad = {} THEN 0 ELSE CHOOSE k \in bad : \A j \in bad : k <= j

\* validationPhase(files, pages): the awaits run in order and the first rejection
\* ends the call.  htmlBad: the files for which html-validator wrote to stderr.
validationPhase(htmlBad) ==
    LET last == IF FV_FirstThrow = 0 THEN Len(FV_Stages) ELSE FV_FirstThrow
    IN  [ threw    |-> FV_FirstThrow # 0,
          ran      |-> {<<FV_Stages[k], 0>> : k \in 1..last},
          server   |-> last >= 4 /\ last < Len(FV_Stages),
          failures |-> Cardinality(htmlBad) ]

\* const files = await discoverFiles(process.cwd()); pages = files.html...
FV_DiscoverFiles ==
    /\ prog = "fix" /\ pc = "fv_discover"
    /\ \E m \in 0..NumFiles : n' = m
    /\ pc' = "fv_loop"
    /\ attempt' = 1
    /\ UNCHANGED <<openPages, progVars, i, round, syncPass, syncVars, servers, browsers, executed,
                   diffImages, results, reportRound, endVars>>

\* One turn of `for (let attempt = 1; attempt <= MAX_ATTEMPTS; attempt++)`, lines
\* 213-223, and lines 224-225 behind the loop.  A rejection of validationPhase is
\* caught nowhere: the async main rejects and Node ends the process.
FV_Attempt ==
    /\ prog = "fix" /\ pc = "fv_loop"
    /\ IF attempt <= MAX_ATTEMPTS
         THEN \E htmlBad \in SUBSET (1..n) :
                LET res == validationPhase(htmlBad) IN
                /\ round' = round + 1
                /\ executed' = res.ran
                /\ servers' = IF res.server THEN servers \cup {round + 1} ELSE servers
                /\ IF res.threw
                     THEN /\ results' = Append(results, "threw")
                          /\ Exit(UnhandledRejectionExit, "Crashed")
                          /\ UNCHANGED <<reportRound, attempt>>
                     ELSE /\ reportRound' = round + 1
                          /\ IF res.failures = 0
                               THEN /\ results' = Append(results, "pass")
                                    /\ Exit(0, "Passed")
                                    /\ UNCHANGED attempt
                               ELSE /\ results' = Append(results, "fail")
                                    /\ attempt' = attempt + 1
                                    /\ UNCHANGED <<pc, endVars>>
         ELSE /\ Exit(1, "AttemptsExhausted")
              /\ UNCHANGED <<round, executed, servers, results, reportRound, attempt>>
    /\ UNCHANGED <<openPages, idVars, i, syncPass, syncVars, browsers, diffImages>>

FV_Next == FV_DiscoverFiles \/ FV_Attempt

\* ------------------------------- visual-regression.test.js: the test runner
\* The pages the runner compares, lines 9-18.
NumPages == 8

\* Lines 23-24: the local server listens.
VR_Listen ==
    /\ prog = "test" /\ pc = "vr_listen"
    /\ servers' = {1}
    /\ pc' = "vr_launch"
    /\ UNCHANGED <<openPages, idVars, i, round, syncPass, syncVars, browsers, executed,
                   diffImages, results, fvVars, endVars>>

\* Lines 26-31: puppeteer.launch, outside the try.  A failed launch rejects main();
\* nothing handles the rejection and the process ends on it.
VR_Launch ==
    /\ prog = "test" /\ pc = "vr_launch"
    /\ \/ browsers' = {1} /\ pc' = "vr_loop" /\ UNCHANGED endVars
       \/ Exit(UnhandledRejectionExit, "Crashed") /\ UNCHANGED browsers
    /\ UNCHANGED <<openPages, idVars, i, round, syncPass, syncVars, servers, executed,
                   diffImages, results, fvVars>>

\* Line 78: the `passed` field of a result.
VR_Verdict(passed) == IF passed THEN "pass" ELSE "fail"

\* Lines 36-89, one turn of the page loop.  Either the page is compared and its
\* result pushed, or a step throws: newPage and the PNG steps with no page open,
\* goto and screenshot with the page still open; the catch sets process.exitCode.
VR_Page ==
    /\ prog = "test" /\ pc = "vr_loop" /\ i <= NumPages
    /\ \/ /\ \E passed \in BOOLEAN : results' = Append(results, VR_Verdict(passed))
          /\ i' = i + 1
          /\ UNCHANGED <<pc, exitProp, openPages>>
       \/ /\ \E open \in {0, 1} : openPages' = openPages + open
          /\ exitProp' = <<1>>
          /\ pc' = "vr_finally"
          /\ UNCHANGED <<i, results>>
    /\ UNCHANGED <<prog, diffVars, n, round, syncPass, syncVars, servers, browsers, executed,
                   diffImages, fvVars, endVars>>

\* After the last page the try block is left.
VR_LoopEnd ==
    /\ prog = "test" /\ pc = "vr_loop" /\ i > NumPages
    /\ pc' = "vr_finally"
    /\ UNCHANGED <<openPages, idVars, i, round, syncPass, syncVars, servers, browsers,
                   executed, diffImages, results, fvVars, endVars>>

\* results.every(r => r.passed)
AllPassed(rs) == \A k \in 1..Len(rs) : rs[k] = "pass"
\* Lines 100-103: if (!allPassed && process.exitCode === 0) process.exitCode = 1.
VR_FinalExitProp(rs, prop) == IF ~AllPassed(rs) /\ prop = <<0>> THEN <<1>> ELSE prop
\* The code a process ends with when main() has settled: process.exitCode, or 0
\* when nothing assigned it.
ExitCodeOf(prop) == IF prop = Undefined THEN 0 ELSE prop[1]

\* Lines 90-104, the finally block, and the end of the process after it.
VR_Finally ==
    /\ prog = "test" /\ pc = "vr_finally"
    /\ browsers' = {} /\ openPages' = 0
    /\ servers' = {}
    /\ reportRound' = 1
    /\ exitProp' = VR_FinalExitProp(results, exitProp)
    /\ Exit(ExitCodeOf(exitProp'), "Finished")
    /\ UNCHANGED <<prog, diffVars, n, i, round, syncPass, syncVars, executed, diffImages,
                   results, attempt>>

VR_Next == VR_Listen \/ VR_Launch \/ VR_Page \/ VR_LoopEnd \/ VR_Finally

Next == SV_Next \/ FV_Next \/ VR_Next

Spec == Init /\ [][Next]_vars

\* -------------------------------------------------------------- visual diff
\* Largest width and height of a screenshot.
MaxDim == 2

Max(a, b) == IF a >= b THEN a ELSE b

\* Pixel buffers of wd x ht pixels, row-major as pngjs keeps them.  A pixel is 0
\* (background; the zero fill of a new PNG compares equal to it) or 1 (ink).  The
\* buffers are the blank one, the full one, and those with a single ink pixel.
PixelData(wd, ht) ==
    {[k \in 1..(wd * ht) |-> c] : c \in {0, 1}}
    \cup {[k \in 1..(wd * ht) |-> IF k = d THEN 1 ELSE 0] : d \in 1..(wd * ht)}

Images ==
    UNION {{[w |-> wd, h |-> ht, data |-> dt] : dt \in PixelData(wd, ht)} :
           wd \in 1..MaxDim, ht \in 1..MaxDim}

\* The pixel of img at column x, row y (from 0); outside img, the zero fill.
PixelAt(img, x, y) ==
    IF x < img.w /\ y < img.h THEN img.data[y * img.w + x + 1] ELSE 0

\* new PNG({width, height}) followed by PNG.bitblt(src, dst, 0, 0, src.width,
\* src.height, 0, 0): src copied to the origin of a zero-filled canvas.
Padded(img, wd, ht) ==
    [k \in 1..(wd * ht) |-> PixelAt(img, (k - 1) % wd, (k - 1) \div wd)]

\* pixelmatch(img1, img2, output, width, height): it rejects buffers of different
\* length and buffers that are not width x height; else it counts, position by
\* position in the buffers, the pixels that differ.
pixelmatch(d1, d2, wd, ht) ==
    IF Len(d1) # Len(d2) \/ Len(d1) # wd * ht
      THEN [threw |-> TRUE, diffPixels |-> 0]
      ELSE [threw |-> FALSE,
            diffPixels |-> Cardinality({k \in 1..(wd * ht) : d1[k] # d2[k]})]

\* part_001 lines 121-126 and part_002 lines 167-172: const { width, height } = img1;
\* the two screenshots are compared as they are, on the local one's dimensions.
UnpaddedCompare(l, v) ==
    LET pm == pixelmatch(l.data, v.data, l.w, l.h)
    IN  [threw |-> pm.threw, canvas |-> <<l.w, l.h>>,
         diffPixels |-> pm.diffPixels, total |-> l.w * l.h]

\* visual-regression.test.js lines 50-71: both padded onto the max canvas.
PaddedCompare(l, v) ==
    LET wd == Max(l.w, v.w)
        ht == Max(l.h, v.h)
        pm == pixelmatch(Padded(l, wd, ht), Padded(v, wd, ht), wd, ht)
    IN  [threw |-> pm.threw, canvas |-> <<wd, ht>>,
         diffPixels |-> pm.diffPixels, total |-> wd * ht]

\* A pair of screenshots is handed to one of the three visual diffs.
DiffInit ==
    /\ RunInit("diff", "compare")
    /\ impl \in {"sync", "fix", "test"}
    /\ imgLocal \in Images
    /\ imgLive \in Images
    /\ cmp = NoCmp
    /\ fnArg = NoArg
    /\ fnRes = NoRes

\* validate(), lines 121-126 of part_001.
SV_VisualDiff ==
    /\ pc = "compare" /\ impl = "sync"
    /\ cmp' = UnpaddedCompare(imgLocal, imgLive)
    /\ pc' = "compared"
    /\ UNCHANGED <<prog, n, i, round, syncPass, snap, fetched, servers, browsers,
                   executed, diffImages, results, reportRound, attempt, outcome,
                   exitCode, impl, imgLocal, imgLive, fnArg, fnRes, exitProp, openPages>>

\* runVisualDiff, lines 167-172 of part_002.
FV_VisualDiff ==
    /\ pc = "compare" /\ impl = "fix"
    /\ cmp' = UnpaddedCompare(imgLocal, imgLive)
    /\ pc' = "compared"
    /\ UNCHANGED <<prog, n, i, round, syncPass, snap, fetched, servers, browsers,
                   executed, diffImages, results, reportRound, attempt, outcome,
                   exitCode, impl, imgLocal, imgLive, fnArg, fnRes, exitProp, openPages>>

\* main, lines 50-71 of visual-regression.test.js.
VR_VisualDiff ==
    /\ pc = "compare" /\ impl = "test"
    /\ cmp' = PaddedCompare(imgLocal, imgLive)
    /\ pc' = "compared"
    /\ UNCHANGED <<prog, n, i, round, syncPass, snap, fetched, servers, browsers,
                   executed, diffImages, results, reportRound, attempt, outcome,
                   exitCode, impl, imgLocal, imgLive, fnArg, fnRes, exitProp, openPages>>

DiffNext == SV_VisualDiff \/ FV_VisualDiff \/ VR_VisualDiff

SpecDiff == DiffInit /\ [][DiffNext]_vars

\* ------------------------------------------------- functions studied alone
\* What a function application leaves alone: everything but pc and fnRes.
pureFrame == <<prog, n, i, round, syncPass, snap, fetched, servers, browsers,
               executed, diffImages, results, reportRound, attempt, outcome, exitCode,
               impl, imgLocal, imgLive, cmp, fnArg, exitProp, openPages>>

\* The function named by study is about to be applied to an input out of inputs.
PureInit(study, inputs) ==
    /\ RunInit(study, "call")
    /\ impl = "none" /\ imgLocal = NoImage /\ imgLive = NoImage /\ cmp = NoCmp
    /\ fnArg \in inputs
    /\ fnRes = NoRes

Returned(study) == prog = study /\ pc = "returned"

\* ---- visual diff verdict
\* Largest number of differing pixels, and largest canvas in thousands of pixels.
MaxDiffPixels == 3
MaxKiloPixels == 2

\* pct > threshold, for pct = (diffPixels / total) * 100.
PctOver(dp, total) == dp * 100 * VISUAL_THRESHOLD_DEN > VISUAL_THRESHOLD_NUM * total

\* Mutant of SV_VisualPass: a diff equal to the threshold fails.
SV_VisualPass_Strict(dp, total) ==
    dp * 100 * VISUAL_THRESHOLD_DEN < VISUAL_THRESHOLD_NUM * total
\* part_001 line 129: if (pct > VISUAL_THRESHOLD) throw ...
SV_VisualPass(dp, total) == ~PctOver(dp, total)
\* part_002 line 173: if (pct > threshold) results.visual.push(...)
FV_VisualPass(dp, total) == ~PctOver(dp, total)
\* visual-regression.test.js line 72: const passed = diffPercent <= threshold
VR_VisualPass(dp, total) ==
    dp * 100 * VISUAL_THRESHOLD_DEN <= VISUAL_THRESHOLD_NUM * total

VerdictInputs ==
    {[diffPixels |-> dp, total |-> 1000 * k] :
        dp \in 0..MaxDiffPixels, k \in 1..MaxKiloPixels}

\* The three scripts judge the same measurement.
VisualVerdict ==
    /\ prog = "verdict" /\ pc = "call"
    /\ fnRes' = [sync |-> SV_VisualPass(fnArg.diffPixels, fnArg.total),
                 fix  |-> FV_VisualPass(fnArg.diffPixels, fnArg.total),
                 test |-> VR_VisualPass(fnArg.diffPixels, fnArg.total)]
    /\ pc' = "returned"
    /\ UNCHANGED pureFrame

\* ---- structural diff
\* Longest inner markup, and the number of different markups of one length.
MaxMarkupLen == 100
NumVariants == 2

\* A string of markup, known by its length and by which of the strings of that
\* length it is; there is one empty string.
EmptyMarkup == [len |-> 0, v |-> 0]
Markups ==
    {EmptyMarkup} \cup {[len |-> l, v |-> k] : l \in 1..MaxMarkupLen, k \in 1..NumVariants}
\* What the page holds: no element for the selector, or an element with inner markup.
NotFound == [len |-> -1, v |-> 0]
Regions == {NotFound} \cup Markups

\* page.$eval(selector, el => el.innerHTML).catch(() => ''): a selector that finds
\* nothing rejects, and the catch turns that into the empty string.
EvalOrEmpty(region) == IF region = NotFound THEN EmptyMarkup ELSE region

\* Mutant of SV_DomPass: a ratio of exactly the threshold fails.
SV_DomPass_Strict(localHtml, liveHtml) ==
    ~(liveHtml.len = 0 \/ localHtml.len * 100 <= DOM_THRESHOLD_PCT * liveHtml.len)
\* part_001 line 119, length-ratio mode:
\* if (!liveHtml || localHtml.length / liveHtml.length < DOM_THRESHOLD) throw ...
SV_DomPass(localHtml, liveHtml) ==
    ~(liveHtml.len = 0 \/ localHtml.len * 100 < DOM_THRESHOLD_PCT * liveHtml.len)
\* part_002 line 149, exact-equality mode:
\* if (localHtml !== liveHtml) results.dom.push({ page, diff: true })
FV_DomPass(localHtml, liveHtml) == localHtml = liveHtml

DomInputs == [local : Regions, live : Regions]

\* part_001 lines 113-119 and part_002 lines 146-149 on the same two pages.
DomDiff ==
    /\ prog = "dom" /\ pc = "call"
    /\ LET localHtml == EvalOrEmpty(fnArg.local)
           liveHtml == EvalOrEmpty(fnArg.live)
       IN  fnRes' = [ratio |-> SV_DomPass(localHtml, liveHtml),
                     exact |-> FV_DomPass(localHtml, liveHtml)]
    /\ pc' = "returned"
    /\ UNCHANGED pureFrame

PureInitAll ==
    \/ PureInit("verdict", VerdictInputs)
    \/ PureInit("dom", DomInputs)

PureNext ==
    \/ VisualVerdict
    \/ DomDiff

SpecPure == PureInitAll /\ [][PureNext]_vars

\* ---- route discovery
\* Longest location entry or href, and largest number of them in one document.
MaxUrlLen == 3
MaxLocs == 2

\* A string is a sequence of these: "O" stands for the text of BASE_URL
\* ('https://genaiglobal.org'), "/" for a slash, "a" for any other character.
UrlChars == {"O", "/", "a"}
Strings == UNION {[1..l -> UrlChars] : l \in 0..MaxUrlLen}
StringLists == UNION {[1..l -> Strings] : l \in 0..MaxLocs}

Contains(str, c) == \E k \in 1..Len(str) : str[k] = c

\* str.replace(BASE_URL, ''): a string pattern replaces the first occurrence only.
RemoveOrigin(str) ==
    IF ~Contains(str, "O") THEN str
    ELSE LET k == CHOOSE j \in 1..Len(str) :
                    str[j] = "O" /\ \A h \in 1..(j - 1) : str[h] # "O"
         IN  SubSeq(str, 1, k - 1) \o SubSeq(str, k + 1, Len(str))
\* str.replace(/^[\/]/, ''): one slash at the start.
StripLeadingSlash(str) == IF str # <<>> /\ str[1] = "/" THEN Tail(str) ELSE str
\* str.replace(/[\/]$/, ''): one slash at the end.
StripTrailingSlash(str) ==
    IF str # <<>> /\ str[Len(str)] = "/" THEN SubSeq(str, 1, Len(str) - 1) ELSE str

\* Line 34, the index path.
NormalizeLoc(loc) == StripTrailingSlash(StripLeadingSlash(RemoveOrigin(loc)))
\* Line 46, the crawl path.
NormalizeHref(href) == StripTrailingSlash(StripLeadingSlash(href))

\* Array.from(new Set(list)): first occurrences, in order.
RECURSIVE Dedup(_)
Dedup(list) ==
    IF list = <<>> THEN <<>>
    ELSE LET front == Dedup(SubSeq(list, 1, Len(list) - 1))
             x == list[Len(list)]
         IN  IF \E k \in 1..Len(front) : front[k] = x THEN front ELSE Append(front, x)

\* The hrefs the crawl keeps: href.startsWith('/').
RECURSIVE CrawlRoutes(_)
CrawlRoutes(hrefs) ==
    IF hrefs = <<>> THEN <<>>
    ELSE LET front == CrawlRoutes(SubSeq(hrefs, 1, Len(hrefs) - 1))
             href == hrefs[Len(hrefs)]
         IN  IF href # <<>> /\ href[1] = "/"
               THEN Append(front, NormalizeHref(href)) ELSE front

\* discoverRoutes, lines 28-51.  The index is unreachable (fetchText throws),
\* malformed (text that is no location list: cheerio parses any text without
\* throwing and `url > loc` selects nothing) or wellformed (its loc entries).  Only a
\* throw inside the try starts the crawl; a failed fetch of the root page throws out
\* of the catch.
discoverRoutes(index, root) ==
    IF index.kind # "unreachable"
      THEN [threw |-> FALSE, path |-> "index",
            routes |-> Dedup([k \in 1..Len(index.locs) |-> NormalizeLoc(index.locs[k])])]
    ELSE IF root.kind = "unreachable"
      THEN [threw |-> TRUE, path |-> "crawl", routes |-> <<>>]
      ELSE [threw |-> FALSE, path |-> "crawl",
            routes |-> Dedup(<<<<>>>> \o CrawlRoutes(root.hrefs))]

NoPage == [kind |-> "unreachable", hrefs |-> <<>>]
NoIndex == [kind |-> "unreachable", locs |-> <<>>]
\* The root page matters only when the index is unreachable.
DiscoverInputs ==
    {[index |-> [kind |-> "wellformed", locs |-> ls], root |-> NoPage] : ls \in StringLists}
    \cup {[index |-> [kind |-> "malformed", locs |-> <<>>], root |-> r] :
             r \in {NoPage, [kind |-> "page", hrefs |-> <<>>]}}
    \cup {[index |-> NoIndex, root |-> [kind |-> "page", hrefs |-> hs]] : hs \in StringLists}
    \cup {[index |-> NoIndex, root |-> NoPage]}

DiscoverInit == PureInit("discover", DiscoverInputs)

DiscoverRoutes ==
    /\ prog = "discover" /\ pc = "call"
    /\ fnRes' = discoverRoutes(fnArg.index, fnArg.root)
    /\ pc' = "returned"
    /\ UNCHANGED pureFrame

SpecDiscover == DiscoverInit /\ [][DiscoverRoutes]_vars

\* ---- syncRoute
\* A Snapshot file: none yet, one left by an earlier call, or the document this call
\* writes, of which the lengths of the content and footer markup are kept.
NoFile == [gen |-> "none", main |-> 0, footer |-> 0]
OldFile == [gen |-> "old", main |-> 0, footer |-> 0]
Doc(mainLen, footerLen) == [gen |-> "new", main |-> mainLen, footer |-> footerLen]

\* A region of the fetched page: -1 when the selector matches nothing, otherwise
\* the length of its inner markup.
Absent == -1
RegionLens == {Absent} \cup (0..MaxContentLen)
\* $('footer').first().html() || ''
FooterOrEmpty(footer) == IF footer = Absent THEN 0 ELSE footer

NoRatio == <<>>
Thrown(err, files) == [err |-> err, files |-> files, ratio |-> NoRatio]

\* Mutant of syncRoute: the Snapshot is written before the content region is looked for.
syncRoute_WriteFirst(arg) ==
    LET written == [arg.files EXCEPT ![arg.route] = Doc(arg.main, FooterOrEmpty(arg.footer))]
    IN  IF ~arg.reachable THEN Thrown("RetrievalError", arg.files)
        ELSE IF arg.main = Absent THEN Thrown("MissingContentRegion", written)
        ELSE IF ~arg.includes THEN Thrown("ReadError", arg.files)
        ELSE IF BelowThreshold(Ratio(arg.main)) THEN Thrown("BelowContentThreshold", written)
        ELSE [err |-> "none", files |-> written, ratio |-> Ratio(arg.main)]

\* syncRoute, lines 53-69: fetch (55), content region or throw (57-58), footer (59),
\* the two include files (60-61), write the Snapshot (62-65), ratio check (66-68).
syncRoute(arg) ==
    LET written == [arg.files EXCEPT ![arg.route] = Doc(arg.main, FooterOrEmpty(arg.footer))]
    IN  IF ~arg.reachable THEN Thrown("RetrievalError", arg.files)
        ELSE IF arg.main = Absent THEN Thrown("MissingContentRegion", arg.files)
        ELSE IF ~arg.includes THEN Thrown("ReadError", arg.files)
        ELSE IF BelowThreshold(Ratio(arg.main)) THEN Thrown("BelowContentThreshold", written)
        ELSE [err |-> "none", files |-> written, ratio |-> Ratio(arg.main)]

SyncRouteInputs ==
    [route : 1..NumRoutes, files : [1..NumRoutes -> {NoFile, OldFile}],
     reachable : BOOLEAN, main : RegionLens, footer : RegionLens, includes : BOOLEAN]

SyncRouteInit == PureInit("syncRoute", SyncRouteInputs)

SyncRouteCall ==
    /\ prog = "syncRoute" /\ pc = "call"
    /\ fnRes' = syncRoute(fnArg)
    /\ pc' = "returned"
    /\ UNCHANGED pureFrame

SpecSyncRoute == SyncRouteInit /\ [][SyncRouteCall]_vars

\* ---- resolve-conflicts.js: mergeDeps
\* Packages a dependency map may name, and the longest version text.
NumPackages == 2
MaxVersionLen == 3

\* A version text is a sequence of these characters; "." also stands for whatever
\* the pattern of versionNums does not match at the start of a text (^, ~, >=, *).
VersionChars == {".", "0", "1"}
Versions == UNION {[1..l -> VersionChars] : l \in 0..MaxVersionLen}
IsDigit(c) == c \in {"0", "1"}
DigitVal(c) == IF c = "1" THEN 1 ELSE 0

\* Last character of the leftmost match of /[0-9]+(\.[0-9]+)*/ that starts with the
\* digit at k: the quantifiers are greedy.
RECURSIVE MatchEnd(_, _)
MatchEnd(v, k) ==
    IF k + 1 <= Len(v) /\ IsDigit(v[k + 1]) THEN MatchEnd(v, k + 1)
    ELSE IF k + 2 <= Len(v) /\ v[k + 1] = "." /\ IsDigit(v[k + 2]) THEN MatchEnd(v, k + 2)
    ELSE k

\* m[0].split('.').map(Number), read left to right: cur is the number being read.
RECURSIVE SplitNumbers(_, _, _)
SplitNumbers(str, cur, done) ==
    IF str = <<>> THEN Append(done, cur)
    ELSE IF Head(str) = "." THEN SplitNumbers(Tail(str), 0, Append(done, cur))
    ELSE SplitNumbers(Tail(str), cur * 10 + DigitVal(Head(str)), done)

\* versionNums, lines 13-16.
versionNums(v) ==
    LET digits == {k \in 1..Len(v) : IsDigit(v[k])}
    IN  IF digits = {} THEN <<0>>
        ELSE LET from == CHOOSE k \in digits : \A j \in digits : k <= j
             IN  SplitNumbers(SubSeq(v, from, MatchEnd(v, from)), 0, <<>>)

\* va[i] || 0
NumAt(nums, k) == IF k <= Len(nums) THEN nums[k] ELSE 0

\* The loop of higherVersion from component k on, lines 22-28.
RECURSIVE HigherFrom(_, _, _)
HigherFrom(a, b, k) ==
    LET va == versionNums(a)
        vb == versionNums(b)
    IN  IF k > Max(Len(va), Len(vb)) THEN a
        ELSE IF NumAt(va, k) > NumAt(vb, k) THEN a
        ELSE IF NumAt(va, k) < NumAt(vb, k) THEN b
        ELSE HigherFrom(a, b, k + 1)
\* higherVersion, lines 18-29.
higherVersion(a, b) == HigherFrom(a, b, 1)

\* A dependency map gives every package a version text or nothing.
Missing == <<"undefined">>
Packages == 1..NumPackages
\* The first package takes every version text; the others take the texts of at most
\* one character, which keeps the number of maps small.
DepMaps ==
    {m \in [Packages -> Versions \cup {Missing}] :
        \A p \in Packages \ {1} : m[p] = Missing \/ Len(m[p]) <= 1}
\* `out[name] ?`: undefined and the empty text are falsy.
Truthy(v) == v # Missing /\ v # <<>>

\* mergeDeps, lines 31-37: out starts as a copy of a, and every entry of b is put in.
mergeDeps(a, b) ==
    [name \in Packages |->
        IF b[name] = Missing THEN a[name]
        ELSE IF Truthy(a[name]) THEN higherVersion(a[name], b[name])
        ELSE b[name]]

MergeInputs == [a : DepMaps, b : DepMaps]

MergeInit == PureInit("mergeDeps", MergeInputs)

MergeDeps ==
    /\ prog = "mergeDeps" /\ pc = "call"
    /\ fnRes' = mergeDeps(fnArg.a, fnArg.b)
    /\ pc' = "returned"
    /\ UNCHANGED pureFrame

SpecMerge == MergeInit /\ [][MergeDeps]_vars

\* ------------------------------------------------------------------ claims
Last(s) == s[Len(s)]
\* One of the two orchestrators (part_001, part_002) is running, not the test runner.
Orchestrator == prog \in {"sync", "fix"}
\* A round is over: its outcome is recorded and no later round has started.
RoundOver == round >= 1 /\ Len(results) = round
\* Positions inside validate() of part_001.
ValidateStages == {"html", "css", "js", "spell", "spawn", "pa11y", "launch", "axe",
                   "blc", "diff", "lh", "close", "kill"}
\* Every check a round of part_001 is made of, for m Routes.
AllChecks(m) ==
    {<<st, 0>> : st \in {"html", "css", "js", "spell", "spawn", "launch", "blc",
                         "close", "kill"}}
    \cup {<<st, r>> : st \in {"pa11y", "axe", "diff", "lh"}, r \in 1..m}

\* C1 (as claimed): a bounded-retry session in which no round passed ends only after
\* exactly MAX_ATTEMPTS rounds, in AttemptsExhausted with a non-zero exit code.
C1_BoundedRetry ==
    (prog = "fix" /\ pc = "exited" /\ \A k \in 1..Len(results) : results[k] # "pass")
        => (round = MAX_ATTEMPTS /\ outcome = "AttemptsExhausted" /\ exitCode # 0)

\* C2: in the unbounded loop, a failed first round followed by a second round with
\* zero failures means exactly two rounds, every Route re-synchronized between them
\* (its Snapshot is the one the second pass wrote), and exit code 0 (Passed).
C2_FailThenPass ==
    (prog = "sync" /\ Len(results) >= 2 /\ results[1] = "fail" /\ results[2] = "pass")
        => /\ Len(results) = 2 /\ round = 2
           /\ syncPass = 2 /\ \A r \in 1..n : snap[r] = 2
           /\ pc = "exited" /\ outcome = "Passed" /\ exitCode = 0
C2_Witness ==
    prog = "sync" /\ results = <<"fail", "pass">> /\ n = NumRoutes /\ pc = "exited"

\* C3 (as claimed): in the unbounded loop, once a round has run, the process exits
\* only after a round with zero failures; no Route-level error ends it.
C3_ExitsOnlyAfterPass ==
    (prog = "sync" /\ pc = "exited" /\ Len(results) >= 1)
        => (Last(results) = "pass" /\ exitCode = 0)

\* C4 (as claimed): a round that is over has run every stage for every Route; a
\* failure of one check is recorded and does not cut the round short.
C4_RoundRunsEveryCheck ==
    (prog = "sync" /\ RoundOver) => AllChecks(n) \subseteq executed

\* C5 (as claimed): at most one server and one browser is alive, none that an earlier
\* round started is alive in a later round, and none is alive when the session ends.
C5_OneServerOneBrowser ==
    Orchestrator
        => /\ Cardinality(servers) <= 1
           /\ Cardinality(browsers) <= 1
           /\ \A k \in servers \cup browsers : k = round
           /\ pc = "exited" => servers = {} /\ browsers = {}

\* C6: while a round of part_001 validates, no synchronization is in progress and
\* every discovered Route has the Snapshot written by this round's pass (pass k
\* precedes round k), so none is missing and none is stale.
C6_ValidateAfterSync ==
    (prog = "sync" /\ pc \in ValidateStages)
        => /\ fetched = -1
           /\ syncPass = round
           /\ \A r \in 1..n : snap[r] = syncPass
C6_Witness ==
    prog = "sync" /\ pc = "diff" /\ round = 2 /\ n = NumRoutes /\ i = NumRoutes

\* C7: the exit code is 0 exactly when the last round run reported zero failures;
\* a fatal error, an exhausted attempt budget and a crash exit non-zero.
C7_ExitCode ==
    (Orchestrator /\ pc = "exited")
        => /\ exitCode = 0 <=> (Len(results) >= 1 /\ Last(results) = "pass")
           /\ outcome \in {"Fatal", "AttemptsExhausted", "Crashed"} => exitCode # 0
           /\ outcome = "Passed" => exitCode = 0
C7_Witness ==
    Orchestrator /\ pc = "exited" /\ exitCode = 0 /\ Len(results) = 2 /\ Last(results) = "pass"

\* C8 (as claimed): once a round is over, the report file holds that round's Report.
C8_ReportAfterEveryRound == RoundOver => reportRound = round

\* C9 (as claimed): every Route that went through the diff stage of the round has
\* its diff image written in that round, whatever the outcome of its checks.
C9_DiffImageAlways ==
    \A r \in 1..n : <<"diff", r>> \in executed => r \in diffImages


\* C10 (as claimed): whatever the dimensions of the two screenshots, the comparison
\* is made on the canvas max(w) x max(h) with both images at the origin: it does not
\* fail, it counts the pixels in which the origin-anchored images differ, and the
\* percentage is taken over the pixel count of that canvas.
C10_MaxCanvas ==
    pc = "compared"
        => LET wd == Max(imgLocal.w, imgLive.w)
               ht == Max(imgLocal.h, imgLive.h)
           IN  /\ ~cmp.threw
               /\ cmp.canvas = <<wd, ht>>
               /\ cmp.total = wd * ht
               /\ cmp.diffPixels =
                    Cardinality({q \in (0..(wd - 1)) \X (0..(ht - 1)) :
                        PixelAt(imgLocal, q[1], q[2]) # PixelAt(imgLive, q[1], q[2])})

\* C11: a measurement passes the visual check exactly when diffPercent <= 0.1, that
\* is diffPixels * 1000 <= total: 0.05 and 0.1 itself pass, 0.2 fails; and the three
\* scripts give the same verdict.
C11_Verdict ==
    Returned("verdict")
        => /\ fnRes.test <=> (fnArg.diffPixels * 1000 <= fnArg.total)
           /\ fnRes.sync = fnRes.test
           /\ fnRes.fix = fnRes.test
\* The measurement is exactly the threshold, 1 pixel in 1000, and passes.
C11_Witness ==
    Returned("verdict") /\ fnArg.diffPixels = 1 /\ fnArg.total = 1000 /\ fnRes.sync

C13_LengthRatio ==
    Returned("dom")
        => LET l == EvalOrEmpty(fnArg.local)
               v == EvalOrEmpty(fnArg.live)
           IN  /\ fnRes.ratio <=> (v.len > 0 /\ l.len * 100 >= 99 * v.len)
               /\ (l = v /\ l.len > 0) => fnRes.ratio
               /\ ((l.len = 0) # (v.len = 0)) => ~fnRes.ratio
\* 99 characters against 100: the ratio is exactly 0.99 and passes.
C13_Witness ==
    Returned("dom") /\ fnArg.local.len = 99 /\ fnArg.live.len = 100 /\ fnRes.ratio

\* C14 (as claimed): the Routes returned are duplicate-free; an index that is
\* unreachable or unparsable sends discovery to the crawl of the root page, whose
\* result holds the root Route (the empty string); and when the root page cannot be
\* fetched either, discovery fails.
C14_Discovery ==
    Returned("discover")
        => LET badIndex == fnArg.index.kind \in {"unreachable", "malformed"}
               rs == fnRes.routes
           IN  /\ \A j, k \in 1..Len(rs) : rs[j] = rs[k] => j = k
               /\ (badIndex /\ fnArg.root.kind = "page")
                     => /\ ~fnRes.threw /\ fnRes.path = "crawl"
                        /\ \E k \in 1..Len(rs) : rs[k] = <<>>
               /\ (badIndex /\ fnArg.root.kind = "unreachable") => fnRes.threw

\* C15 (as claimed): every Route returned, on either path, holds no site origin and
\* has no slash at its start and none at its end.
C15_Normalized ==
    (Returned("discover") /\ ~fnRes.threw)
        => \A k \in 1..Len(fnRes.routes) :
             LET route == fnRes.routes[k]
             IN  /\ ~Contains(route, "O")
                 /\ route # <<>> => (route[1] # "/" /\ route[Len(route)] # "/")

\* C16 (as claimed): syncRoute fails with BelowContentThreshold when the content
\* region is found and its inner markup is empty, and returns a ratio without error
\* when the markup is not empty.
C16_EmptyContentFails ==
    (Returned("syncRoute") /\ fnArg.reachable /\ fnArg.includes /\ fnArg.main # Absent)
        => IF fnArg.main = 0
             THEN fnRes.err = "BelowContentThreshold"
             ELSE fnRes.err = "none" /\ fnRes.ratio # NoRatio

\* C17: on a page without a content region syncRoute fails with MissingContentRegion
\* and leaves every Snapshot file as it was; on a page with a content region and no
\* footer it succeeds and the Snapshot's footer is empty.
C17_MissingRegionWritesNothing ==
    (Returned("syncRoute") /\ fnArg.reachable)
        => /\ fnArg.main = Absent
                => fnRes.err = "MissingContentRegion" /\ fnRes.files = fnArg.files
           /\ (fnArg.main # Absent /\ fnArg.footer = Absent /\ fnArg.includes)
                => /\ fnRes.err = "none"
                   /\ fnRes.files[fnArg.route] = Doc(fnArg.main, 0)
                   /\ \A r \in 1..NumRoutes :
                        r # fnArg.route => fnRes.files[r] = fnArg.files[r]
C17_Witness ==
    /\ Returned("syncRoute") /\ fnArg.reachable /\ fnArg.main = Absent
    /\ fnRes.err = "MissingContentRegion"
    /\ \E r \in 1..NumRoutes : fnArg.files[r] = OldFile /\ fnRes.files[r] = OldFile

\* C18 (as claimed): the test runner ends with a non-zero exit code whenever a page's
\* result has passed = false or the page loop raised an error, and with 0 only when
\* every listed page was compared and passed.
C18_RunnerExitCode ==
    (prog = "test" /\ pc = "exited")
        => exitCode = 0 <=> (Len(results) = NumPages /\ AllPassed(results))

\* C19 (as claimed): every page opened for a Route's check is closed before the next
\* Route's check starts and before the round ends, on every path, so that no page
\* context is open between two Routes.
C19_NoPageLeftOpen == prog = "sync" => openPages = 0

\* Position of a stage in the order validationPhase of part_002 awaits its stages.
FV_Pos(stage) == CHOOSE k \in 1..Len(FV_Stages) : FV_Stages[k] = stage
\* The checks of the current round of part_001 that have run for stage st.
Ran(st) == \E c \in executed : c[1] = st
RanAll(st, m) == IF st \in {"pa11y", "axe", "diff", "lh"}
                   THEN \A r \in 1..m : <<st, r>> \in executed
                   ELSE <<st, 0>> \in executed

C21_RunnerCleanup ==
    (prog = "test" /\ pc = "exited")
        => servers = {} /\ browsers = {} /\ reportRound = 1

\* x is lower than y: at the first component where they differ, missing components
\* counted as 0, x has the smaller number.
LexLower(x, y) ==
    \E k \in 1..Max(Len(x), Len(y)) :
        /\ NumAt(x, k) < NumAt(y, k)
        /\ \A j \in 1..(k - 1) : NumAt(x, j) = NumAt(y, j)

\* C22 (as claimed): mergeDeps(a, b) names exactly the packages of a and of b; a
\* package of one side only keeps that side's version; a package of both sides gets
\* the version with the higher numeric components, a's on a tie; the version chosen
\* is never lower than either input.
C22_MergeDeps ==
    Returned("mergeDeps")
        => \A name \in Packages :
             LET va == fnArg.a[name]
                 vb == fnArg.b[name]
                 out == fnRes[name]
             IN  /\ out = Missing <=> (va = Missing /\ vb = Missing)
                 /\ (va # Missing /\ vb = Missing) => out = va
                 /\ (va = Missing /\ vb # Missing) => out = vb
                 /\ (va # Missing /\ vb # Missing)
                      => /\ out = IF LexLower(versionNums(va), versionNums(vb))
                                    THEN vb ELSE va
                         /\ ~LexLower(versionNums(out), versionNums(va))
                         /\ ~LexLower(versionNums(out), versionNums(vb))

=============================================================================
